---- MODULE Spec2Model ----
(***************************************************************************)
(* A model of rheas-io/cookies: the Cookie value object (src/src/cookie.ts) *)
(* and the CookiesManager (src/src/cookiesManager.ts).                      *)
(*                                                                         *)
(* Strings are sequences of symbols.  A symbol is one character ("=", ";", *)
(* " ", "%", "3", "D", "x") or a chunk of ordinary characters that holds   *)
(* none of "=", ";", "%", whitespace ("sid", "constructor", "__proto__",   *)
(* "/app", ...).  Splitting, trimming and percent-coding act character by  *)
(* character, and leave such chunks alone, so they are modelled exactly.   *)
(*                                                                         *)
(* Time is counted in years since the epoch: `now` is Date.now().          *)
(***************************************************************************)
EXTENDS Integers, Sequences, FiniteSets, TLC

VARIABLES
    cookie,     \* the fields of the Cookie instance under test
    now,        \* the system clock, Date.now()
    out,        \* the string the last toString() returned (<<>> otherwise)
    err,        \* what the last Cookie operation raised ("none" if nothing)
    lastOp,     \* the last Cookie operation and its argument
    input,      \* the header / fragment handed to the parser
    presult,    \* the outcome of the last parseCookie(input)
    mpc,        \* CookiesManager: "new", "ready", or "threw" (constructor raised)
    _incoming,  \* CookiesManager._incoming, a plain JS object
    _queue,     \* CookiesManager._queue, a plain JS object
    ret         \* the last manager call, its arguments and what it returned

vars == <<cookie, now, out, err, lastOp, input, presult, mpc, _incoming, _queue, ret>>

cookieVars == <<cookie, now, out, err, lastOp>>
managerVars == <<input, presult, mpc, _incoming, _queue, ret>>

----------------------------------------------------------------------------
(* Bounds *)

\* The clock starts at NowMin and advances at most ClockTicks times.
NowMin == 50
ClockTicks == 2
NowMax == NowMin + ClockTicks

\* The largest time value a Date can hold (8.64e15 ms in ECMAScript), scaled.
MaxDate == 80

\* Longest header / fragment handed to the parser in SpecParse.
MaxLen == 4

----------------------------------------------------------------------------
(* Strings *)

Str(s) == <<s>>

Alphabet == {"x", "constructor", "__proto__", "=", ";", " ", "%", "3", "D"}

RECURSIVE StringsUpTo(_)
StringsUpTo(n) ==
    IF n = 0 THEN {<<>>}
    ELSE LET shorter == StringsUpTo(n - 1)
         IN  shorter \cup {Append(s, c) : s \in {t \in shorter : Len(t) = n - 1}, c \in Alphabet}

\* String.prototype.split(sep) for a one-character separator: the pieces
\* between the separators, always at least one piece.
RECURSIVE SplitFrom(_, _, _, _)
SplitFrom(s, sep, i, cur) ==
    IF i > Len(s) THEN <<cur>>
    ELSE IF s[i] = sep THEN <<cur>> \o SplitFrom(s, sep, i + 1, <<>>)
    ELSE SplitFrom(s, sep, i + 1, Append(cur, s[i]))

Split(s, sep) == SplitFrom(s, sep, 1, <<>>)

\* String.prototype.trimLeft(): drops the leading whitespace only.
RECURSIVE TrimLeft(_)
TrimLeft(s) ==
    IF s # <<>> /\ Head(s) = " " THEN TrimLeft(Tail(s)) ELSE s

\* The hexadecimal digits of the alphabet.  The chunks and "x" start with a
\* character, or hold a second one, that is no hexadecimal digit.
HexDigits == {"3", "D"}

\* decodeURIComponent: "%" must be followed by two hexadecimal digits that
\* name a valid UTF-8 sequence.  With the digits 3 and D: %33 is "3", %3D is
\* "="; %D3 and %DD are lead bytes of a two-byte sequence whose continuation
\* byte (%80..%BF) cannot be written, so they are malformed.  Anything
\* malformed raises URIError.
RECURSIVE DecodeFrom(_, _, _)
DecodeFrom(s, i, acc) ==
    IF i > Len(s) THEN [ok |-> TRUE, s |-> acc]
    ELSE IF s[i] # "%" THEN DecodeFrom(s, i + 1, Append(acc, s[i]))
    ELSE IF i + 2 > Len(s) THEN [ok |-> FALSE, s |-> <<>>]
    ELSE IF s[i + 1] \notin HexDigits \/ s[i + 2] \notin HexDigits
         THEN [ok |-> FALSE, s |-> <<>>]
    ELSE IF s[i + 1] = "3" /\ s[i + 2] = "3" THEN DecodeFrom(s, i + 3, Append(acc, "3"))
    ELSE IF s[i + 1] = "3" /\ s[i + 2] = "D" THEN DecodeFrom(s, i + 3, Append(acc, "="))
    ELSE [ok |-> FALSE, s |-> <<>>]

decodeURIComponent(s) == DecodeFrom(s, 1, <<>>)

\* encodeURIComponent: the reserved characters become percent sequences,
\* everything else is left alone.
EncodeChar(c) ==
    CASE c = " " -> <<"%", "2", "0">>
      [] c = ";" -> <<"%", "3", "B">>
      [] c = "=" -> <<"%", "3", "D">>
      [] c = "%" -> <<"%", "2", "5">>
      [] c = "/app" -> <<"%", "2", "F", "app">>
      [] OTHER -> <<c>>

RECURSIVE encodeURIComponent(_)
encodeURIComponent(s) ==
    IF s = <<>> THEN <<>> ELSE EncodeChar(Head(s)) \o encodeURIComponent(Tail(s))

----------------------------------------------------------------------------
(* Time *)

\* dayjs(t).isValid(): a Date holds t iff it is within the Date range; NaN
\* and the infinities behave like every other out-of-range number.
isValid(t) == -MaxDate <= t /\ t <= MaxDate

\* The offset of expire() and forever(), in years.
ThirteenYears == 13

\* Redate.responseFormat(t): the HTTP date of t (of an external package); one
\* token that names the instant, "Invalid Date" for an invalid one.
responseFormat(t) == IF isValid(t) THEN "date:" \o ToString(t) ELSE "Invalid Date"

\* The time values handed to the constructor and to setExpire.
TsInputs == {0, 1, NowMin - 1, NowMax + 5, MaxDate, MaxDate + 1, -(MaxDate + 1)}

----------------------------------------------------------------------------
(* JavaScript values and plain objects *)

\* A value a manager method handles: null, undefined, a cookie object, a
\* boolean, or a native value (a built-in function or Object.prototype).
JSNull == [t |-> "null", c |-> <<>>, b |-> FALSE]
JSUndefined == [t |-> "undefined", c |-> <<>>, b |-> FALSE]
JSNative == [t |-> "native", c |-> <<>>, b |-> FALSE]
JSCookie(c) == [t |-> "cookie", c |-> <<c>>, b |-> FALSE]
JSBool(b) == [t |-> "bool", c |-> <<>>, b |-> b]

\* `{}`: an object with no own property whose prototype is Object.prototype.
\* own maps the own property names to the cookies stored; proto is <<>> for
\* Object.prototype, <<c>> once the prototype has been set to the object c.
EmptyObject == [own |-> <<>>, proto |-> <<>>]

ProtoName == Str("__proto__")

\* The property names of the model that every object inherits from
\* Object.prototype (and from Cookie.prototype) as functions.
InheritedNames == {Str("constructor")}

\* obj[name]: the own property; "__proto__" is the accessor that returns the
\* prototype; an inherited member otherwise; undefined when there is none.
GetProp(obj, name) ==
    IF name = ProtoName
    THEN IF obj.proto = <<>> THEN JSNative ELSE JSCookie(obj.proto[1])
    ELSE IF name \in DOMAIN obj.own THEN JSCookie(obj.own[name])
    ELSE IF name \in InheritedNames THEN JSNative
    ELSE JSUndefined

\* obj[name] = c: "__proto__" is the accessor that sets the prototype; any
\* other name becomes (or overwrites) an own property.
SetProp(obj, name, c) ==
    IF name = ProtoName
    THEN [obj EXCEPT !.proto = <<c>>]
    ELSE [obj EXCEPT !.own = [k \in (DOMAIN obj.own) \cup {name} |->
                                 IF k = name THEN c ELSE obj.own[k]]]

\* delete obj[name]: removes an own property, and nothing else.
DeleteProp(obj, name) ==
    [obj EXCEPT !.own = [k \in (DOMAIN obj.own) \ {name} |-> obj.own[k]]]

\* v || null
OrNull(v) == IF v.t \in {"undefined", "null"} THEN JSNull ELSE v

\* v instanceof Cookie
InstanceOfCookie(v) == v.t = "cookie" /\ v.c[1].cls = "Cookie"

\* What the model records of a manager call: the method, the name (or header)
\* it was given, its other argument, the value returned, whether it raised.
Ret(op, name, arg, v, threw) ==
    [op |-> op, name |-> name, arg |-> arg, v |-> v, threw |-> threw]

NoRet == Ret("none", <<>>, JSNull, JSNull, FALSE)

NoResult == [kind |-> "none", c |-> <<>>]

----------------------------------------------------------------------------
(* Cookie *)

SameSite == {"none", "lax", "strict"}
SameSiteNONE == "none"

CookieNames == {Str("sid"), <<"k", " ">>}
CookieValues == {<<>>, Str("v"), <<"v", ";">>}
Paths == {<<>>, Str("/"), Str("/app")}
Domains == {<<>>, Str("example.com")}

\* new Cookie(name, value, expiresAt, path, domain, secure, httpOnly, raw,
\* sameSite): plain field assignment, nothing is validated.
NewCookie(name, value, expiresAt, path, domain, secure, httpOnly, raw, sameSite) ==
    [cls |-> "Cookie", name |-> name, value |-> value, expiresAt |-> expiresAt,
     path |-> path, domain |-> domain, secure |-> secure, httpOnly |-> httpOnly,
     raw |-> raw, sameSite |-> sameSite]

\* new Cookie(name, value) with the defaults of the other parameters.
DefaultCookie(name, value) ==
    NewCookie(name, value, 0, Str("/"), <<>>, FALSE, FALSE, TRUE, SameSiteNONE)

getMaxAge(c, t) ==
    IF c.expiresAt = 0 THEN 0
    ELSE IF ~isValid(c.expiresAt) THEN 0
    ELSE IF c.expiresAt - t > 0 THEN c.expiresAt - t ELSE 0

hasExpired(c, t) == getMaxAge(c, t) = 0

rawIfNeededOf(c, value) == IF c.raw THEN value ELSE encodeURIComponent(value)

\* Whether setExpire(timestamp) raises InvalidArgumentException.
SetExpireRaises(timestamp) == timestamp # 0 /\ ~isValid(timestamp)

\* expire() hands setExpire the time thirteen years before now.
ExpireTime(t) == t - ThirteenYears

\* forever() hands setExpire the time thirteen years after now.
ForeverTime(t) == t + ThirteenYears

\* ToStringCookie with the expiry forced only when none was set.
ToStringCookie_KeepExpiry(c, t) ==
    IF c.value = <<>> /\ c.expiresAt = 0 THEN [c EXCEPT !.expiresAt = t - 13] ELSE c

\* toString(): the cookie after the call (an empty value expires it).
ToStringCookie(c, t) ==
    IF c.value = <<>> THEN [c EXCEPT !.expiresAt = ExpireTime(t)] ELSE c

\* toString(): name, value and expiry part.
ToStringHead(c, t) ==
    LET c2 == ToStringCookie(c, t)
    IN  rawIfNeededOf(c, c.name) \o <<"=">> \o
        (IF c.value = <<>>
         THEN <<"; expires=", responseFormat(c2.expiresAt), "; Max-Age=", ToString(0)>>
         ELSE rawIfNeededOf(c, c.value) \o
              (IF c.expiresAt # 0
               THEN <<"; expires=", responseFormat(c.expiresAt)>> ELSE <<>>) \o
              <<"; Max-Age=", ToString(getMaxAge(c, t))>>)

\* ToStringAttrs with "; httponly" written before "; secure".
ToStringAttrs_Swapped(c) ==
    (IF c.path # <<>> THEN <<"; path=">> \o c.path ELSE <<>>) \o
    (IF c.domain # <<>> THEN <<"; domain=">> \o c.domain ELSE <<>>) \o
    (IF c.httpOnly THEN <<"; httponly">> ELSE <<>>) \o
    (IF c.secure THEN <<"; secure">> ELSE <<>>) \o
    (IF "none" # c.sameSite THEN <<"; samesite=", c.sameSite>> ELSE <<>>)

\* toString(): the attributes that follow.
ToStringAttrs(c) ==
    (IF c.path # <<>> THEN <<"; path=">> \o c.path ELSE <<>>) \o
    (IF c.domain # <<>> THEN <<"; domain=">> \o c.domain ELSE <<>>) \o
    (IF c.secure THEN <<"; secure">> ELSE <<>>) \o
    (IF c.httpOnly THEN <<"; httponly">> ELSE <<>>) \o
    (IF SameSiteNONE # c.sameSite THEN <<"; samesite=", c.sameSite>> ELSE <<>>)

ToStringOf(c, t) == ToStringHead(c, t) \o ToStringAttrs(c)

InitCookie ==
    /\ cookie \in {NewCookie(n, v, e, Str("/"), <<>>, FALSE, FALSE, r, SameSiteNONE) :
                      n \in CookieNames, v \in {<<>>, Str("v")}, e \in TsInputs,
                      r \in BOOLEAN}
    /\ now = NowMin
    /\ out = <<>>
    /\ err = "none"
    /\ lastOp = [op |-> "new", arg |-> 0]
    /\ input = <<>>
    /\ presult = NoResult
    /\ mpc = "new"
    /\ _incoming = EmptyObject
    /\ _queue = EmptyObject
    /\ ret = NoRet

Done(op, arg) ==
    /\ lastOp' = [op |-> op, arg |-> arg]
    /\ UNCHANGED <<now, managerVars>>

setValue ==
    \E v \in CookieValues :
        /\ cookie' = [cookie EXCEPT !.value = v]
        /\ out' = <<>> /\ err' = "none"
        /\ Done("setValue", 0)

\* setExpire assigning before it validates.
setExpire_AssignFirst ==
    \E timestamp \in TsInputs :
        /\ cookie' = [cookie EXCEPT !.expiresAt = timestamp]
        /\ err' = IF timestamp # 0 /\ ~isValid(timestamp) THEN "InvalidArgument" ELSE "none"
        /\ out' = <<>>
        /\ Done("setExpire", timestamp)

setExpire ==
    \E timestamp \in TsInputs :
        /\ IF SetExpireRaises(timestamp)
           THEN cookie' = cookie /\ err' = "InvalidArgument"
           ELSE cookie' = [cookie EXCEPT !.expiresAt = timestamp] /\ err' = "none"
        /\ out' = <<>>
        /\ Done("setExpire", timestamp)

expire ==
    /\ IF SetExpireRaises(ExpireTime(now))
       THEN cookie' = cookie /\ err' = "InvalidArgument"
       ELSE cookie' = [cookie EXCEPT !.expiresAt = ExpireTime(now)] /\ err' = "none"
    /\ out' = <<>>
    /\ Done("expire", 0)

forever ==
    /\ IF SetExpireRaises(ForeverTime(now))
       THEN cookie' = cookie /\ err' = "InvalidArgument"
       ELSE cookie' = [cookie EXCEPT !.expiresAt = ForeverTime(now)] /\ err' = "none"
    /\ out' = <<>>
    /\ Done("forever", 0)

setPath ==
    \E p \in Paths :
        /\ cookie' = [cookie EXCEPT !.path = p]
        /\ out' = <<>> /\ err' = "none"
        /\ Done("setPath", 0)

setDomain ==
    \E d \in Domains :
        /\ cookie' = [cookie EXCEPT !.domain = d]
        /\ out' = <<>> /\ err' = "none"
        /\ Done("setDomain", 0)

setSecure ==
    \E b \in BOOLEAN :
        /\ cookie' = [cookie EXCEPT !.secure = b]
        /\ out' = <<>> /\ err' = "none"
        /\ Done("setSecure", 0)

setHttpOnly ==
    \E b \in BOOLEAN :
        /\ cookie' = [cookie EXCEPT !.httpOnly = b]
        /\ out' = <<>> /\ err' = "none"
        /\ Done("setHttpOnly", 0)

setRaw ==
    \E b \in BOOLEAN :
        /\ cookie' = [cookie EXCEPT !.raw = b]
        /\ out' = <<>> /\ err' = "none"
        /\ Done("setRaw", 0)

setSameSite ==
    \E ss \in SameSite :
        /\ cookie' = [cookie EXCEPT !.sameSite = ss]
        /\ out' = <<>> /\ err' = "none"
        /\ Done("setSameSite", 0)

toString ==
    /\ cookie' = ToStringCookie(cookie, now)
    /\ out' = ToStringOf(cookie, now)
    /\ err' = "none"
    /\ Done("toString", 0)

\* Time passes between two calls.
Tick ==
    /\ now < NowMax
    /\ now' = now + 1
    /\ UNCHANGED <<cookie, out, err, lastOp, managerVars>>

NextCookie ==
    \/ setValue \/ setExpire \/ expire \/ forever
    \/ setPath \/ setDomain \/ setSecure \/ setHttpOnly \/ setRaw \/ setSameSite
    \/ toString \/ Tick

----------------------------------------------------------------------------
(* CookiesManager *)

\* An ICookie implementation that is no instance of the Cookie class.
OtherCookie(name, value) == [DefaultCookie(name, value) EXCEPT !.cls = "Other"]

\* parseCookie(cookie): "cookie" with the parsed cookie, "null" for an empty
\* name, "URIError" when decodeURIComponent raises.
ParseCookieOf(fragment) ==
    LET keyValue == Split(fragment, "=")
        name == decodeURIComponent(TrimLeft(keyValue[1]))
        value == decodeURIComponent(IF Len(keyValue) >= 2 THEN keyValue[2] ELSE <<>>)
    IN  IF ~name.ok THEN [kind |-> "URIError", c |-> <<>>]
        ELSE IF name.s = <<>> THEN [kind |-> "null", c |-> <<>>]
        ELSE IF ~value.ok THEN [kind |-> "URIError", c |-> <<>>]
        ELSE [kind |-> "cookie", c |-> <<DefaultCookie(name.s, value.s)>>]

\* The forEach of parseIncomingCookies over the fragments from the i-th on:
\* the object as it is when the loop ends or an exception leaves it.
RECURSIVE ParseEach(_, _, _)
ParseEach(obj, cookies, i) ==
    IF i > Len(cookies) THEN [obj |-> obj, threw |-> FALSE]
    ELSE LET r == ParseCookieOf(cookies[i])
         IN  IF r.kind = "URIError" THEN [obj |-> obj, threw |-> TRUE]
             ELSE IF r.kind = "cookie"
                  THEN ParseEach(SetProp(obj, r.c[1].name, r.c[1]), cookies, i + 1)
             ELSE ParseEach(obj, cookies, i + 1)

ParseIncomingOf(obj, cookieHeader) == ParseEach(obj, Split(cookieHeader, ";"), 1)

IncomingOf(obj, name) == OrNull(GetProp(obj, name))

QueuedOf(obj, name) == OrNull(GetProp(obj, name))

HasQueuedOf(obj, name) == InstanceOfCookie(GetProp(obj, name))

GetOf(q, inc, key, defaultValue) ==
    LET value == QueuedOf(q, key)
        value2 == IF value = JSNull THEN IncomingOf(inc, key) ELSE value
    IN  IF value2.t \in {"null", "undefined"} THEN defaultValue ELSE value2

\* The names, cookies, headers and defaults the manager is driven with.
MNames == {Str("x"), Str("constructor"), ProtoName}

QueueCookies ==
    {DefaultCookie(n, Str("new")) : n \in MNames} \cup {OtherCookie(Str("x"), Str("new"))}

ManagerHeaders ==
    { <<>>,
      <<"x", "=", "3">>,
      <<"x", "=", "D", ";", " ", "constructor", "=", "3">>,
      <<"__proto__", "=", "3">>,
      <<"x", "=", "3", ";", "%">> }

Defaults == {JSNull, JSCookie(DefaultCookie(Str("dflt"), Str("d")))}





\* new CookiesManager(request): parses request.headers.cookie || ''.
Construct ==
    /\ mpc = "new"
    /\ LET r == ParseIncomingOf(EmptyObject, input)
       IN  /\ _incoming' = r.obj
           /\ mpc' = IF r.threw THEN "threw" ELSE "ready"
           /\ ret' = Ret("new", <<>>, JSNull, JSNull, r.threw)
    /\ UNCHANGED <<input, presult, _queue, cookieVars>>

parseIncomingCookies ==
    /\ mpc = "ready"
    /\ \E cookieHeader \in ManagerHeaders :
          LET r == ParseIncomingOf(_incoming, cookieHeader)
          IN  /\ _incoming' = r.obj
              /\ ret' = Ret("parseIncomingCookies", cookieHeader, JSNull, JSNull, r.threw)
    /\ UNCHANGED <<input, presult, mpc, _queue, cookieVars>>

\* parseCookie(input), on any manager: it reads no field of the manager.
parseCookie ==
    /\ presult = NoResult
    /\ presult' = ParseCookieOf(input)
    /\ UNCHANGED <<input, mpc, _incoming, _queue, ret, cookieVars>>

hasQueued ==
    /\ mpc = "ready"
    /\ \E name \in MNames :
          ret' = Ret("hasQueued", name, JSNull, JSBool(HasQueuedOf(_queue, name)), FALSE)
    /\ UNCHANGED <<input, presult, mpc, _incoming, _queue, cookieVars>>

\* queue storing the cookie among the incoming ones as well.
queue_IntoIncoming ==
    /\ mpc = "ready"
    /\ \E c \in QueueCookies :
          /\ _queue' = SetProp(_queue, c.name, c)
          /\ _incoming' = SetProp(_incoming, c.name, c)
          /\ ret' = Ret("queue", c.name, JSCookie(c), JSNull, FALSE)
    /\ UNCHANGED <<input, presult, mpc, cookieVars>>

queue ==
    /\ mpc = "ready"
    /\ \E c \in QueueCookies :
          /\ _queue' = SetProp(_queue, c.name, c)
          /\ ret' = Ret("queue", c.name, JSCookie(c), JSNull, FALSE)
    /\ UNCHANGED <<input, presult, mpc, _incoming, cookieVars>>

unqueue ==
    /\ mpc = "ready"
    /\ \E name \in MNames :
          /\ _queue' = DeleteProp(_queue, name)
          /\ ret' = Ret("unqueue", name, JSNull, JSNull, FALSE)
    /\ UNCHANGED <<input, presult, mpc, _incoming, cookieVars>>

incoming ==
    /\ mpc = "ready"
    /\ \E name \in MNames :
          ret' = Ret("incoming", name, JSNull, IncomingOf(_incoming, name), FALSE)
    /\ UNCHANGED <<input, presult, mpc, _incoming, _queue, cookieVars>>

queued ==
    /\ mpc = "ready"
    /\ \E name \in MNames :
          ret' = Ret("queued", name, JSNull, QueuedOf(_queue, name), FALSE)
    /\ UNCHANGED <<input, presult, mpc, _incoming, _queue, cookieVars>>

get ==
    /\ mpc = "ready"
    /\ \E key \in MNames, defaultValue \in Defaults :
          ret' = Ret("get", key, defaultValue,
                     GetOf(_queue, _incoming, key, defaultValue), FALSE)
    /\ UNCHANGED <<input, presult, mpc, _incoming, _queue, cookieVars>>

\* The parser on every string up to MaxLen: as a fragment given to
\* parseCookie, and as the header the manager is constructed with.
InitParse ==
    /\ input \in StringsUpTo(MaxLen)
    /\ presult = NoResult
    /\ mpc = "new"
    /\ _incoming = EmptyObject
    /\ _queue = EmptyObject
    /\ ret = NoRet
    /\ cookie = DefaultCookie(Str("sid"), <<>>)
    /\ now = NowMin
    /\ out = <<>>
    /\ err = "none"
    /\ lastOp = [op |-> "new", arg |-> 0]

NextParse == Construct \/ parseCookie

SpecParse == InitParse /\ [][NextParse]_vars

\* A manager constructed with one of the headers, then driven by its methods.
InitManager ==
    /\ input \in ManagerHeaders
    /\ presult = NoResult
    /\ mpc = "new"
    /\ _incoming = EmptyObject
    /\ _queue = EmptyObject
    /\ ret = NoRet
    /\ cookie = DefaultCookie(Str("sid"), <<>>)
    /\ now = NowMin
    /\ out = <<>>
    /\ err = "none"
    /\ lastOp = [op |-> "new", arg |-> 0]

NextManager ==
    \/ Construct \/ parseIncomingCookies \/ parseCookie
    \/ hasQueued \/ queue \/ unqueue \/ incoming \/ queued \/ get

SpecManager == InitManager /\ [][NextManager]_vars

SpecCookie == InitCookie /\ [][NextCookie]_vars

----------------------------------------------------------------------------
(* Properties *)

Count(seq, tok) == Cardinality({i \in 1..Len(seq) : seq[i] = tok})

\* The first place of tok in seq, 0 when it is not there.
IndexOf(seq, tok) ==
    IF \E i \in 1..Len(seq) : seq[i] = tok
    THEN CHOOSE i \in 1..Len(seq) : seq[i] = tok /\ \A j \in 1..(i - 1) : seq[j] # tok
    ELSE 0

\* The text of s after its first sep, empty when s holds no sep.
AfterFirst(s, sep) ==
    IF IndexOf(s, sep) = 0 THEN <<>> ELSE SubSeq(s, IndexOf(s, sep) + 1, Len(s))

SetMax(S) == CHOOSE m \in S : \A k \in S : k <= m

\* Whether a cookie is stored in obj under name, and which.
HasEntry(obj, name) ==
    IF name = ProtoName THEN obj.proto # <<>> ELSE name \in DOMAIN obj.own

EntryOf(obj, name) == IF name = ProtoName THEN obj.proto[1] ELSE obj.own[name]

\* C1: get(name, defaultValue) returns the cookie queued under name if there
\* is one, otherwise the incoming cookie under name if there is one, otherwise
\* defaultValue.
C1_GetPrecedence ==
    ret.op = "get" =>
        ret.v = IF HasEntry(_queue, ret.name) THEN JSCookie(EntryOf(_queue, ret.name))
                ELSE IF HasEntry(_incoming, ret.name)
                     THEN JSCookie(EntryOf(_incoming, ret.name))
                ELSE ret.arg

\* C2: after parseIncomingCookies(header), incoming holds exactly the names of
\* the fragments of the header that have a non-empty decoded name, each with
\* the cookie of its last fragment.
C2_IncomingIsHeaderNames ==
    mpc # "new" =>
        LET cookies == Split(input, ";")
            good == {i \in 1..Len(cookies) : ParseCookieOf(cookies[i]).kind = "cookie"}
            nameAt(i) == ParseCookieOf(cookies[i]).c[1].name
            names == {nameAt(i) : i \in good}
            last(n) == SetMax({i \in good : nameAt(i) = n})
        IN  /\ \A n \in names :
                  /\ HasEntry(_incoming, n)
                  /\ EntryOf(_incoming, n) = ParseCookieOf(cookies[last(n)]).c[1]
            /\ DOMAIN _incoming.own \subseteq names
            /\ _incoming.proto # <<>> => ProtoName \in names

\* C3: parseCookie never raises, and so neither does the construction of a
\* manager, whatever the header.
C3_ParseNeverRaises == presult.kind # "URIError" /\ mpc # "threw"

\* C4: the value parseCookie gives a cookie is the decoded whole remainder of
\* the fragment after its first "=".
C4_ValueIsRemainder ==
    (presult.kind = "cookie" /\ decodeURIComponent(AfterFirst(input, "=")).ok) =>
        presult.c[1].value = decodeURIComponent(AfterFirst(input, "=")).s

\* C5: toString() of a cookie with an empty value gives the name, "=", an
\* expires attribute with a date in the past and "; Max-Age=0", whatever the
\* expiry was before; the expiry of the cookie is then that past time.
C5_EmptyValueExpires ==
    (lastOp.op = "toString" /\ cookie.value = <<>>) =>
        LET n == Len(rawIfNeededOf(cookie, cookie.name))
        IN  /\ Len(out) >= n + 5
            /\ SubSeq(out, 1, n) = rawIfNeededOf(cookie, cookie.name)
            /\ SubSeq(out, n + 1, n + 5) =
                   <<"=", "; expires=", responseFormat(cookie.expiresAt), "; Max-Age=", "0">>
            /\ cookie.expiresAt # 0
            /\ isValid(cookie.expiresAt)
            /\ cookie.expiresAt < now

C5_Witness ==
    /\ lastOp.op = "toString"
    /\ cookie.value = <<>>
    /\ out # <<>>
    /\ now > NowMin
    /\ ~cookie.raw

AttrTokens == <<"; path=", "; domain=", "; secure", "; httponly", "; samesite=">>

\* C6: toString() writes, after the expiry part, "; path=", "; domain=",
\* "; secure", "; httponly", "; samesite=" in this order, each at most once,
\* and each exactly when its field is not at the value that omits it.
C6_AttributeEmission ==
    lastOp.op = "toString" =>
        LET emit == <<cookie.path # <<>>, cookie.domain # <<>>, cookie.secure,
                      cookie.httpOnly, cookie.sameSite # "none">>
            pos(k) == IndexOf(out, AttrTokens[k])
        IN  /\ \A k \in 1..5 : Count(out, AttrTokens[k]) = IF emit[k] THEN 1 ELSE 0
            /\ Count(out, "; Max-Age=") = 1
            /\ \A k \in 1..5 : emit[k] => pos(k) > IndexOf(out, "; Max-Age=") + 1
            /\ \A j, k \in 1..5 : (j < k /\ emit[j] /\ emit[k]) => pos(j) < pos(k)
            /\ emit[1] => SubSeq(out, pos(1) + 1, pos(1) + Len(cookie.path)) = cookie.path
            /\ emit[2] => SubSeq(out, pos(2) + 1, pos(2) + Len(cookie.domain)) = cookie.domain
            /\ emit[5] => (pos(5) + 1 = Len(out) /\ out[pos(5) + 1] = cookie.sameSite)

C6_Witness ==
    /\ lastOp.op = "toString"
    /\ cookie.path = Str("/app")
    /\ cookie.domain = Str("example.com")
    /\ cookie.secure
    /\ cookie.httpOnly
    /\ cookie.sameSite = "strict"
    /\ cookie.value # <<>>

\* C7: setExpire(t) with t non-zero and no valid time raises InvalidArgument
\* and changes no field; with t zero or a valid time it sets expiresAt to t
\* and changes no other field.
C7_SetExpire ==
    [][(lastOp'.op = "setExpire" /\ now' = now) =>
          IF lastOp'.arg # 0 /\ ~(-MaxDate <= lastOp'.arg /\ lastOp'.arg <= MaxDate)
          THEN err' = "InvalidArgument" /\ cookie' = cookie
          ELSE err' = "none" /\ cookie' = [cookie EXCEPT !.expiresAt = lastOp'.arg]]_vars

C7_Witness ==
    /\ lastOp.op = "setExpire"
    /\ lastOp.arg = MaxDate + 1
    /\ err = "InvalidArgument"
    /\ cookie.expiresAt = NowMax + 5

\* C8: hasQueued(name) is true if and only if a cookie is queued under name,
\* whatever ICookie implementation it is.
C8_HasQueuedIffQueued ==
    ret.op = "hasQueued" => (ret.v.b <=> HasEntry(_queue, ret.name))

\* C9: expiresAt is 0 or a valid time in every state of a Cookie.
C9_ExpiresAtValid ==
    cookie.expiresAt = 0 \/ (-MaxDate <= cookie.expiresAt /\ cookie.expiresAt <= MaxDate)

\* C10: no method called on a constructed manager changes incoming.
C10_IncomingReadOnly == [][mpc = "ready" => _incoming' = _incoming]_vars

\* C10, amended: no method called on a constructed manager other than
\* parseIncomingCookies changes incoming.
C10_IncomingReadOnlyButParse ==
    [][(mpc = "ready" /\ ret'.op # "parseIncomingCookies") => _incoming' = _incoming]_vars

C10_Witness ==
    /\ mpc = "ready"
    /\ ret.op = "queue"
    /\ HasEntry(_incoming, ret.name)
    /\ HasEntry(_queue, ret.name)
    /\ EntryOf(_queue, ret.name) # EntryOf(_incoming, ret.name)

====
